---- MODULE Spec2Model ----
(***************************************************************************)
(* host-checker.py: configuration merge (Config.read_file, read_argv),     *)
(* probe interpretation (check_ping), report construction                  *)
(* (send_email_report), delivery (sendmail_MailSender, smtplib_MailSender) *)
(* and the control flow of main.                                           *)
(*                                                                         *)
(* Text is a sequence of tokens: single characters where the code looks    *)
(* inside the text (split, strip, the regular expression), whole literals  *)
(* where it only copies it.  A host list is a sequence of such texts.      *)
(***************************************************************************)
EXTENDS Integers, Sequences, FiniteSets, TLC

VARIABLES
    config,       \* the Config object: _hosts, _recipients, _sender
    call,         \* history: the last Config call and its input
    pre,          \* history: the Config fields before that call
    last,         \* history: per field, the list of the last call whose value was non-empty
    plainOnly,    \* history: TRUE while no file with a MailSender section was read
    pc,           \* position of main
    trace,        \* history: start / check / send events of main, in order
    ping_procs,   \* main's dict host -> process, in insertion order
    checks,       \* history: (host, success, msg) of every check_ping call
    failures,     \* main's dict host -> msg, in insertion order
    mimetext,     \* the message handed to mailsender.send
    invocations,  \* the /usr/sbin/sendmail processes run by sendmail_MailSender.send
    submissions,  \* messages submitted to the relay by smtplib_MailSender.send
    error,        \* the exception that ended main, if any
    pingIn,       \* check_ping: (stdout, stderr, exitcode) of the waited process
    pingOut       \* check_ping: the returned (success, msg)

vars == <<config, call, pre, last, plainOnly, pc, trace, ping_procs, checks,
          failures, mimetext, invocations, submissions, error, pingIn, pingOut>>

cfgVars  == <<config, call, pre, last, plainOnly>>
mainVars == <<pc, trace, ping_procs, checks, failures, mimetext, invocations,
              submissions, error>>
pingVars == <<pingIn, pingOut>>

(***************************************************************************)
(* Text helpers                                                            *)
(***************************************************************************)

\* Python's None, for a value that is a text
None == <<"None">>

\* str.strip()'s default character class, as far as the inputs go
Whitespace == {" "}

RECURSIVE lstrip(_)
lstrip(s) ==
    IF s # <<>> /\ Head(s) \in Whitespace THEN lstrip(Tail(s)) ELSE s

RECURSIVE rstrip(_)
rstrip(s) ==
    IF s # <<>> /\ s[Len(s)] \in Whitespace THEN rstrip(SubSeq(s, 1, Len(s) - 1)) ELSE s

\* str.strip()
strip(s) == rstrip(lstrip(s))

\* str.split(","): the pieces between the commas; never an empty list
RECURSIVE split(_)
split(s) ==
    IF \E i \in 1..Len(s) : s[i] = ","
    THEN LET i == CHOOSE k \in 1..Len(s) : s[k] = "," /\ \A j \in 1..(k - 1) : s[j] # ","
         IN  <<SubSeq(s, 1, i - 1)>> \o split(SubSeq(s, i + 1, Len(s)))
    ELSE <<s>>

\* [x.strip() for x in s.split(",")]
split_strip(s) == LET parts == split(s) IN [i \in 1..Len(parts) |-> strip(parts[i])]

\* Python truthiness of a text or None
truthy(v) == v # None /\ v # <<>>

(***************************************************************************)
(* Mail senders                                                            *)
(***************************************************************************)

sendmail_MailSender == [type |-> "sendmail_MailSender", server_address |-> None]

smtplib_MailSender(smtp_server_address) ==
    [type |-> "smtplib_MailSender", server_address |-> smtp_server_address]

(***************************************************************************)
(* Inputs of Config                                                        *)
(***************************************************************************)

\* most entries in one Hosts value, in one Recipients value
MaxHosts == 3

MaxRecipients == 2

\* the first n of the entries (taken round and round), with commas between them
RECURSIVE line_of(_, _)
line_of(entries, n) ==
    IF n = 0 THEN <<>>
    ELSE IF n = 1 THEN entries[1]
    ELSE line_of(entries, n - 1) \o <<",">> \o entries[((n - 1) % Len(entries)) + 1]

\* values of Hosts / --hosts as written: empty, "a, b,a" (one host twice), " c "
HostLines == { <<>>, line_of(<< <<"a">>, <<" ", "b">> >>, MaxHosts), <<" ", "c", " ">> }

\* values of Recipients / --recipients as written: empty, "x ,y"
RecipientLines == { <<>>, line_of(<< <<"x", " ">>, <<"y">>, <<"z">> >>, MaxRecipients) }

TypeLines == { <<"sendmail">>, <<"smtplib">>, <<"postfix">> }

AddressLines == { <<"smtp.abc.com">> }

\* a configuration file: its sections and the values of their keys as written
Files ==
    { f \in [ hasGeneral : BOOLEAN, Hosts : HostLines \cup {None},
              Recipients : RecipientLines \cup {None},
              hasMailSender : BOOLEAN, Type : TypeLines \cup {None},
              Address : AddressLines \cup {None} ] :
        /\ ~f.hasGeneral => f.Hosts = None /\ f.Recipients = None
        /\ ~f.hasMailSender => f.Type = None /\ f.Address = None }

\* a command line: the value of each flag, None when the flag is not given
Argvs == [ hosts : HostLines \cup {None}, recipients : RecipientLines \cup {None} ]

NoFile == [ hasGeneral |-> FALSE, Hosts |-> None, Recipients |-> None,
            hasMailSender |-> FALSE, Type |-> None, Address |-> None ]

NoArgv == [ hosts |-> None, recipients |-> None ]

(***************************************************************************)
(* Config                                                                  *)
(***************************************************************************)

\* Config.__init__
Config == [ hosts |-> <<>>, recipients |-> <<>>, sender |-> sendmail_MailSender ]

\* SectionProxy.get(key, fallback) of configparser: the value with the
\* surrounding whitespace removed, the fallback when the key is missing
parser_get(value, fallback) == IF value = None THEN fallback ELSE strip(value)

\* the [General] part of Config.read_file, for one of the two keys
read_list(old, present, value, fallback) ==
    LET line == parser_get(value, fallback) IN
    IF present /\ truthy(line) THEN split_strip(line) ELSE old

\* read_sender without its  elif sendertype == 'sendmail'  branch
read_sender_no_sendmail(old, fp) ==
    IF ~fp.hasMailSender THEN old
    ELSE IF parser_get(fp.Type, None) = <<"smtplib">>
         THEN smtplib_MailSender(parser_get(fp.Address, <<"localhost">>))
         ELSE old

\* the [MailSender] part of Config.read_file
read_sender(old, fp) ==
    IF ~fp.hasMailSender THEN old
    ELSE LET sendertype == parser_get(fp.Type, None) IN
         IF sendertype = <<"smtplib">>
         THEN smtplib_MailSender(parser_get(fp.Address, <<"localhost">>))
         ELSE IF sendertype = <<"sendmail">> THEN sendmail_MailSender
         ELSE old

\* Config.read_file
read_file(self, fp) ==
    [ hosts      |-> read_list(self.hosts, fp.hasGeneral, fp.Hosts, <<>>),
      recipients |-> read_list(self.recipients, fp.hasGeneral, fp.Recipients, None),
      sender     |-> read_sender(self.sender, fp) ]

\* argparse's type=lambda s : [x.strip() for x in s.split(",")], applied to a given flag
parse_arg(value) == split_strip(value)

\* the  if arguments.X: self._X = arguments.X  of Config.read_argv; arguments.X is
\* None when the flag is not given, the converted list otherwise
argv_list(old, value) ==
    IF value # None /\ parse_arg(value) # <<>> THEN parse_arg(value) ELSE old

\* Config.read_argv
read_argv(self, argv) ==
    [ hosts      |-> argv_list(self.hosts, argv.hosts),
      recipients |-> argv_list(self.recipients, argv.recipients),
      sender     |-> self.sender ]

(***************************************************************************)
(* History of the Config calls                                             *)
(***************************************************************************)

\* the value a call gives for a key, as the source hands it to the program:
\* configparser strips it, argparse passes it on unchanged
Given(kind, value) ==
    IF value = None THEN None
    ELSE IF kind = "read_file" THEN strip(value) ELSE value

\* the list a call supplies for a key: empty when the key is absent or its value empty
Supplied(kind, value) ==
    IF truthy(Given(kind, value)) THEN split_strip(Given(kind, value)) ELSE <<>>

Latest(old, kind, value) ==
    LET new == Supplied(kind, value) IN IF new # <<>> THEN new ELSE old

CallHosts == IF call.kind = "read_file" THEN call.fp.Hosts ELSE call.argv.hosts

CallRecipients == IF call.kind = "read_file" THEN call.fp.Recipients ELSE call.argv.recipients

(***************************************************************************)
(* check_ping                                                              *)
(***************************************************************************)

Digits == {"0", "1", "2", "3", "4", "5", "6", "7", "8", "9"}

\* the literal text "% packet loss", as one token
PacketLoss == "% packet loss"

\* the last index of the run of digits that starts at index i (i - 1 when s[i] is no digit)
RECURSIVE digits_end(_, _)
digits_end(s, i) ==
    IF i <= Len(s) /\ s[i] \in Digits THEN digits_end(s, i + 1) ELSE i - 1

\* '([0-9]+)% packet loss' matches at index i: one or more digits, then the literal
matches_at(s, i) ==
    /\ s[i] \in Digits
    /\ digits_end(s, i) < Len(s)
    /\ s[digits_end(s, i) + 1] = PacketLoss

\* mo.group(1) of re.search('([0-9]+)% packet loss', s), None without a match:
\* the leftmost match, its digits taken greedily
re_search(s) ==
    IF \E i \in 1..Len(s) : matches_at(s, i)
    THEN LET i == CHOOSE k \in 1..Len(s) :
                     matches_at(s, k) /\ \A j \in 1..(k - 1) : ~matches_at(s, j)
         IN  SubSeq(s, i, digits_end(s, i))
    ELSE None

\* check_ping, given what proc.wait() and proc.communicate() return
check_ping(stdout, stderr, exitcode) ==
    LET group == re_search(stdout) IN
    IF group # None /\ group # <<"0">>
    THEN [ success |-> FALSE, msg |-> group \o <<PacketLoss, ".">> ]
    ELSE [ success |-> exitcode = 0,
           msg |-> IF exitcode # 0
                   THEN <<"stdout: ">> \o stdout \o <<", stderr: ">> \o stderr
                   ELSE <<>> ]

\* longest standard output of a probe, in tokens
MaxOut == 5

OutTokens == {"0", "2", ".", PacketLoss}

Outputs == UNION { [1..n -> OutTokens] : n \in 0..MaxOut }

ErrOutputs == { <<>>, <<"ping: unknown host">> }

\* largest exit status of ping
MaxStatus == 2

ExitCodes == 0..MaxStatus

PingInputs == [ stdout : Outputs, stderr : ErrOutputs, exitcode : ExitCodes ]

(***************************************************************************)
(* start_ping, the two dicts of main, send_email_report                    *)
(***************************************************************************)

\* what the ping processes of one run may turn out to do
ProbeRuns ==
    { [ stdout |-> <<"0", PacketLoss>>, stderr |-> <<>>, exitcode |-> 0 ],
      [ stdout |-> <<"2", "0", PacketLoss>>, stderr |-> <<>>, exitcode |-> 0 ],
      [ stdout |-> <<"1", "0", "0", PacketLoss>>, stderr |-> <<>>, exitcode |-> 1 ],
      [ stdout |-> <<>>, stderr |-> <<"ping: unknown host">>, exitcode |-> 2 ] }

\* largest exit status of /usr/sbin/sendmail
MaxExit == 1

SendmailExits == 0..MaxExit

\* d[k] = v on a dict kept as the sequence of its items in insertion order
dict_set(d, k, v) ==
    IF \E i \in 1..Len(d) : d[i].key = k
    THEN [ i \in 1..Len(d) |-> IF d[i].key = k THEN [ key |-> k, value |-> v ] ELSE d[i] ]
    ELSE Append(d, [ key |-> k, value |-> v ])

\* dict(pairs)
RECURSIVE dict(_)
dict(pairs) ==
    IF pairs = <<>> THEN <<>>
    ELSE LET n == Len(pairs) IN
         dict_set(dict(SubSeq(pairs, 1, n - 1)), pairs[n].key, pairs[n].value)

\* the events of one kind in the trace
Events(kind) == SelectSeq(trace, LAMBDA e : e.ev = kind)

\* the list  [(host, start_ping(host)) for host in hosts]  built so far; a
\* process is named by its position among the processes started
StartedPairs ==
    [ i \in 1..Len(Events("start")) |->
        [ key |-> Events("start")[i].host, value |-> Events("start")[i].proc ] ]

\* sep.join(texts)
RECURSIVE join(_, _)
join(sep, texts) ==
    IF texts = <<>> THEN <<>>
    ELSE IF Len(texts) = 1 THEN texts[1]
    ELSE texts[1] \o <<sep>> \o join(sep, Tail(texts))

AllUp == <<"All hosts are up.">>

host_line(host) == <<" - ">> \o host

failure_line(host, msg) ==
    <<" - ">> \o host \o <<" failed with the following error: ">> \o msg

\* the lines of "\n".join([" - %s" % host for host in hosts]): one per host,
\* one empty line for no host
host_lines(hosts) ==
    IF hosts = <<>> THEN << <<>> >> ELSE [ i \in 1..Len(hosts) |-> host_line(hosts[i]) ]

\* report_rest with the test  if not failures  turned round
report_rest_inverted(fails) ==
    IF fails # <<>>
    THEN << AllUp, <<>>, <<"Best regards,">>, <<"HostChecker">> >>
    ELSE << <<>>, <<>>, <<"Best regards,">>, <<"HostChecker">> >>

\* the lines send_email_report adds after the host list
report_rest(fails) ==
    IF fails = <<>>
    THEN << AllUp, <<>>, <<"Best regards,">>, <<"HostChecker">> >>
    ELSE [ i \in 1..Len(fails) |-> failure_line(fails[i].key, fails[i].value) ]
         \o << <<>>, <<>>, <<"Best regards,">>, <<"HostChecker">> >>

\* msg of send_email_report, as its lines
report_msg(hosts, fails) ==
    << <<"HostChecker report">>, <<>>, <<"HostChecker has checked the following hosts:">> >>
    \o host_lines(hosts) \o << <<>> >> \o report_rest(fails)

\* the MIMEText of send_email_report
report_mime(hosts, fails, recipients) ==
    [ body    |-> report_msg(hosts, fails),
      Subject |-> <<"HostChecker report">>,
      From    |-> <<"HostChecker">>,
      To      |-> join(", ", recipients) ]

(***************************************************************************)
(* Initial state                                                           *)
(***************************************************************************)

NoMail == [ body |-> <<>>, Subject |-> None, From |-> None, To |-> <<>> ]

NoPing == [ stdout |-> <<>>, stderr |-> <<>>, exitcode |-> 0 ]

NoResult == [ called |-> FALSE, success |-> FALSE, msg |-> <<>> ]

InitCfg ==
    /\ config = Config
    /\ call = [ kind |-> "none", fp |-> NoFile, argv |-> NoArgv ]
    /\ pre = Config
    /\ last = [ hosts |-> <<>>, recipients |-> <<>> ]
    /\ plainOnly = TRUE

InitMain ==
    /\ pc = "begin"
    /\ trace = <<>>
    /\ ping_procs = <<>>
    /\ checks = <<>>
    /\ failures = <<>>
    /\ mimetext = NoMail
    /\ invocations = <<>>
    /\ submissions = 0
    /\ error = "none"

InitPing ==
    /\ pingIn = NoPing
    /\ pingOut = NoResult

Init == InitCfg /\ InitMain /\ InitPing

(***************************************************************************)
(* Calls on one Config object, in any order                                *)
(***************************************************************************)

CfgReadFile ==
    \E fp \in Files :
        /\ config' = read_file(config, fp)
        /\ call' = [ kind |-> "read_file", fp |-> fp, argv |-> NoArgv ]
        /\ pre' = config
        /\ last' = [ hosts |-> Latest(last.hosts, "read_file", fp.Hosts),
                     recipients |-> Latest(last.recipients, "read_file", fp.Recipients) ]
        /\ plainOnly' = (plainOnly /\ ~fp.hasMailSender)
        /\ UNCHANGED <<mainVars, pingVars>>

CfgReadArgv ==
    \E argv \in Argvs :
        /\ config' = read_argv(config, argv)
        /\ call' = [ kind |-> "read_argv", fp |-> NoFile, argv |-> argv ]
        /\ pre' = config
        /\ last' = [ hosts |-> Latest(last.hosts, "read_argv", argv.hosts),
                     recipients |-> Latest(last.recipients, "read_argv", argv.recipients) ]
        /\ UNCHANGED <<plainOnly, mainVars, pingVars>>

NextConfig == CfgReadFile \/ CfgReadArgv

SpecConfig == Init /\ [][NextConfig]_vars

(***************************************************************************)
(* check_ping on every output of a probe                                   *)
(***************************************************************************)

InitCheckPing == InitCfg /\ InitMain /\ pingIn \in PingInputs /\ pingOut = NoResult

CheckPing ==
    /\ ~pingOut.called
    /\ pingOut' = [ called  |-> TRUE,
                    success |-> check_ping(pingIn.stdout, pingIn.stderr, pingIn.exitcode).success,
                    msg     |-> check_ping(pingIn.stdout, pingIn.stderr, pingIn.exitcode).msg ]
    /\ UNCHANGED <<pingIn, cfgVars, mainVars>>

SpecPing == InitCheckPing /\ [][CheckPing]_vars

(***************************************************************************)
(* One run of main                                                         *)
(***************************************************************************)

\* if '--unittest' in argv: return unittest.main()
MainUnittest ==
    /\ pc = "begin"
    /\ pc' = "unittest"
    /\ UNCHANGED <<trace, ping_procs, checks, failures, mimetext, invocations,
                   submissions, error, cfgVars, pingVars>>

\* config = Config()
MainNewConfig ==
    /\ pc = "begin"
    /\ config' = Config
    /\ pc' = "/etc/host-checker"
    /\ UNCHANGED <<call, pre, last, plainOnly, trace, ping_procs, checks, failures,
                   mimetext, invocations, submissions, error, pingVars>>

NextFile == IF pc = "/etc/host-checker" THEN "~/.host-checker" ELSE "read_argv"

\* the body of  for filename in (...)  when os.path.exists(filename)
MainReadFile ==
    /\ pc \in {"/etc/host-checker", "~/.host-checker"}
    /\ \E fp \in Files : config' = read_file(config, fp)
    /\ pc' = NextFile
    /\ UNCHANGED <<call, pre, last, plainOnly, trace, ping_procs, checks, failures,
                   mimetext, invocations, submissions, error, pingVars>>

\* the same when the file does not exist
MainNoFile ==
    /\ pc \in {"/etc/host-checker", "~/.host-checker"}
    /\ pc' = NextFile
    /\ UNCHANGED <<trace, ping_procs, checks, failures, mimetext, invocations,
                   submissions, error, cfgVars, pingVars>>

\* config.read_argv(argv); hosts = config.hosts()
MainReadArgv ==
    /\ pc = "read_argv"
    /\ \E argv \in Argvs : config' = read_argv(config, argv)
    /\ pc' = "start_ping"
    /\ UNCHANGED <<call, pre, last, plainOnly, trace, ping_procs, checks, failures,
                   mimetext, invocations, submissions, error, pingVars>>

\* start_ping(host) for the next host of the list comprehension, then its check:
\* the loop  for host in hosts: check_ping(host, start_ping(host))
MainStartPing_then_check ==
    /\ pc = "start_ping"
    /\ Len(Events("start")) < Len(config.hosts)
    /\ \E run \in ProbeRuns :
         LET i == Len(Events("start")) + 1
             r == check_ping(run.stdout, run.stderr, run.exitcode) IN
         /\ trace' = trace \o << [ ev |-> "start", proc |-> i, host |-> config.hosts[i] ],
                                  [ ev |-> "check", proc |-> i, host |-> config.hosts[i] ] >>
         /\ checks' = Append(checks, [ host |-> config.hosts[i], proc |-> i,
                                       success |-> r.success, msg |-> r.msg ])
         /\ failures' = IF r.success THEN failures
                                     ELSE dict_set(failures, config.hosts[i], r.msg)
    /\ UNCHANGED <<pc, ping_procs, mimetext, invocations, submissions, error,
                   cfgVars, pingVars>>

\* start_ping(host) for the next host of the list comprehension
MainStartPing ==
    /\ pc = "start_ping"
    /\ Len(Events("start")) < Len(config.hosts)
    /\ LET i == Len(Events("start")) + 1 IN
         trace' = Append(trace, [ ev |-> "start", proc |-> i, host |-> config.hosts[i] ])
    /\ UNCHANGED <<pc, ping_procs, checks, failures, mimetext, invocations,
                   submissions, error, cfgVars, pingVars>>

\* ping_procs = dict([...]) once the list is complete; failures = dict()
MainDict ==
    /\ pc = "start_ping"
    /\ Len(Events("start")) = Len(config.hosts)
    /\ ping_procs' = dict(StartedPairs)
    /\ failures' = <<>>
    /\ pc' = "check_ping"
    /\ UNCHANGED <<trace, checks, mimetext, invocations, submissions, error,
                   cfgVars, pingVars>>

\* one round of  for host in ping_procs
MainCheckPing ==
    /\ pc = "check_ping"
    /\ Len(checks) < Len(ping_procs)
    /\ \E run \in ProbeRuns :
         LET item == ping_procs[Len(checks) + 1]
             r == check_ping(run.stdout, run.stderr, run.exitcode) IN
         /\ trace' = Append(trace, [ ev |-> "check", proc |-> item.value, host |-> item.key ])
         /\ checks' = Append(checks, [ host |-> item.key, proc |-> item.value,
                                       success |-> r.success, msg |-> r.msg ])
         /\ failures' = IF r.success THEN failures ELSE dict_set(failures, item.key, r.msg)
    /\ UNCHANGED <<pc, ping_procs, mimetext, invocations, submissions, error,
                   cfgVars, pingVars>>

\* send_email_report up to its call of mailsender.send
MainReport ==
    /\ pc = "check_ping"
    /\ Len(checks) = Len(ping_procs)
    /\ mimetext' = report_mime(config.hosts, failures, config.recipients)
    /\ trace' = Append(trace, [ ev |-> "send", proc |-> 0, host |-> <<>> ])
    /\ pc' = "send"
    /\ UNCHANGED <<ping_procs, checks, failures, invocations, submissions, error,
                   cfgVars, pingVars>>

\* one round of sendmail_MailSender.send that runs sendmail once with every recipient
SendmailInvoke_all_at_once ==
    /\ pc = "send"
    /\ config.sender.type = "sendmail_MailSender"
    /\ invocations = <<>> /\ config.recipients # <<>>
    /\ \E status \in SendmailExits :
         /\ invocations' = << [ recipient |-> join(",", config.recipients),
                                stdin |-> mimetext, exit |-> status ] >>
         /\ error' = IF status # 0 THEN "Exception: sendmail failed." ELSE error
         /\ pc' = IF status # 0 THEN "raised" ELSE "return 0"
    /\ UNCHANGED <<trace, ping_procs, checks, failures, mimetext, submissions,
                   cfgVars, pingVars>>

\* one round of sendmail_MailSender.send without its  if proc.wait(): raise
SendmailInvoke_no_raise ==
    /\ pc = "send"
    /\ config.sender.type = "sendmail_MailSender"
    /\ Len(invocations) < Len(config.recipients)
    /\ \E status \in SendmailExits :
         invocations' = Append(invocations,
                               [ recipient |-> config.recipients[Len(invocations) + 1],
                                 stdin |-> mimetext, exit |-> status ])
    /\ UNCHANGED <<pc, error, trace, ping_procs, checks, failures, mimetext, submissions,
                   cfgVars, pingVars>>

\* one round of  for recipient in recipients  of sendmail_MailSender.send
SendmailInvoke ==
    /\ pc = "send"
    /\ config.sender.type = "sendmail_MailSender"
    /\ Len(invocations) < Len(config.recipients)
    /\ \E status \in SendmailExits :
         /\ invocations' = Append(invocations,
                                  [ recipient |-> config.recipients[Len(invocations) + 1],
                                    stdin |-> mimetext, exit |-> status ])
         /\ error' = IF status # 0 THEN "Exception: sendmail failed." ELSE error
         /\ pc' = IF status # 0 THEN "raised" ELSE pc
    /\ UNCHANGED <<trace, ping_procs, checks, failures, mimetext, submissions,
                   cfgVars, pingVars>>

\* the loop of sendmail_MailSender.send is over; main returns 0
SendmailDone ==
    /\ pc = "send"
    /\ config.sender.type = "sendmail_MailSender"
    /\ Len(invocations) = Len(config.recipients)
    /\ pc' = "return 0"
    /\ UNCHANGED <<trace, ping_procs, checks, failures, mimetext, invocations,
                   submissions, error, cfgVars, pingVars>>

\* smtplib_MailSender.send: its first statement names smptlib, which is not defined
SmtplibSend ==
    /\ pc = "send"
    /\ config.sender.type = "smtplib_MailSender"
    /\ error' = "NameError: name 'smptlib' is not defined"
    /\ pc' = "raised"
    /\ UNCHANGED <<trace, ping_procs, checks, failures, mimetext, invocations,
                   submissions, cfgVars, pingVars>>

Next ==
    \/ MainUnittest
    \/ MainNewConfig
    \/ MainReadFile
    \/ MainNoFile
    \/ MainReadArgv
    \/ MainStartPing
    \/ MainDict
    \/ MainCheckPing
    \/ MainReport
    \/ SendmailInvoke
    \/ SendmailDone
    \/ SmtplibSend

Spec == Init /\ [][Next]_vars

(***************************************************************************)
(* Claims about the configuration merge                                    *)
(***************************************************************************)

\* C1: after every call, a field whose key the call gave a non-empty value
\* equals exactly the list of that call, and each field is always the list of
\* the last call that gave it a non-empty value.
C1_LastNonEmptyListWins ==
    call.kind # "none" =>
        /\ Supplied(call.kind, CallHosts) # <<>> =>
                config.hosts = Supplied(call.kind, CallHosts)
        /\ Supplied(call.kind, CallRecipients) # <<>> =>
                config.recipients = Supplied(call.kind, CallRecipients)
        /\ last.hosts # <<>> => config.hosts = last.hosts
        /\ last.recipients # <<>> => config.recipients = last.recipients

\* C2: a call whose key or flag is absent, or whose value is empty, leaves the
\* corresponding list exactly as it was before the call, for read_file and
\* read_argv and for hosts and recipients.
C2_AbsentOrEmptyKeepsList ==
    call.kind # "none" =>
        /\ ~truthy(Given(call.kind, CallHosts)) => config.hosts = pre.hosts
        /\ ~truthy(Given(call.kind, CallRecipients)) => config.recipients = pre.recipients

\* C4: a Config that has read no file with a MailSender section uses
\* sendmail; after a file with Type=sendmail it uses sendmail; after a file
\* with Type=smtplib it uses the relay at that file's Address, or at
\* localhost when the file has no Address key.
C4_MailSenderSelection ==
    /\ plainOnly => config.sender = sendmail_MailSender
    /\ call.kind = "read_file" /\ call.fp.hasMailSender =>
        /\ call.fp.Type = <<"sendmail">> => config.sender = sendmail_MailSender
        /\ call.fp.Type = <<"smtplib">> =>
              /\ config.sender.type = "smtplib_MailSender"
              /\ config.sender.server_address =
                    IF call.fp.Address = None THEN <<"localhost">> ELSE call.fp.Address

\* C4 witness: a Config on the relay at some address reads a file with
\* Type=smtplib and no Address, and now uses the relay at localhost
C4_Witness ==
    /\ call.kind = "read_file" /\ call.fp.Type = <<"smtplib">> /\ call.fp.Address = None
    /\ pre.sender = smtplib_MailSender(<<"smtp.abc.com">>)
    /\ config.sender = smtplib_MailSender(<<"localhost">>)

(***************************************************************************)
(* Claims about check_ping                                                 *)
(***************************************************************************)

\* the first place where the output reports a loss: a "% packet loss" that follows a digit
loss_at(s, p) == p > 1 /\ s[p] = PacketLoss /\ s[p - 1] \in Digits

RECURSIVE figure_start(_, _)
figure_start(s, j) ==
    IF j >= 1 /\ s[j] \in Digits \cup {"."} THEN figure_start(s, j - 1) ELSE j + 1

\* the packet-loss percentage the output reports, as written (for instance
\* 20 or 20.0), None when it reports none
ReportedLoss(s) ==
    IF \E p \in 1..Len(s) : loss_at(s, p)
    THEN LET p == CHOOSE k \in 1..Len(s) :
                     loss_at(s, k) /\ \A j \in 1..(k - 1) : ~loss_at(s, j)
         IN  SubSeq(s, figure_start(s, p - 1), p - 1)
    ELSE None

\* a number: digits, or digits "." digits
IsNumber(n) ==
    /\ n[1] \in Digits
    /\ Cardinality({i \in 1..Len(n) : n[i] = "."}) <= 1

IsZero(n) == \A i \in 1..Len(n) : n[i] \in {"0", "."}

Contains(text, part) ==
    \E i \in 1..(Len(text) + 1) : SubSeq(text, i, i + Len(part) - 1) = part

\* C3: for an output that reports no loss figure or reports one number N:
\* the host is alive exactly if zero loss is reported and the exit status is
\* zero; a non-zero N gives failure with message "N% packet loss." whatever
\* the exit status; a non-zero exit status with no figure or with zero loss
\* gives failure with a message that contains stdout and stderr.
C3_CheckPingResult ==
    LET n == ReportedLoss(pingIn.stdout) IN
    (pingOut.called /\ (n = None \/ IsNumber(n))) =>
        /\ pingOut.success <=> (n # None /\ IsZero(n) /\ pingIn.exitcode = 0)
        /\ (n # None /\ ~IsZero(n)) =>
               ~pingOut.success /\ pingOut.msg = n \o <<PacketLoss, ".">>
        /\ (pingIn.exitcode # 0 /\ (n = None \/ IsZero(n))) =>
               /\ ~pingOut.success
               /\ Contains(pingOut.msg, pingIn.stdout)
               /\ Contains(pingOut.msg, pingIn.stderr)

(***************************************************************************)
(* Claims about one run of main                                            *)
(***************************************************************************)

Range(f) == { f[i] : i \in DOMAIN f }

ReportBuilt == pc \in {"send", "return 0", "raised"}

SendOver == pc \in {"return 0", "raised"}

\* C5: one call of smtplib_MailSender.send submits exactly one message to
\* the relay and ends without an error.
C5_RelaySubmitsOnce ==
    (SendOver /\ config.sender.type = "smtplib_MailSender") =>
        submissions = 1 /\ error = "none"

\* the invocations made so far are for the first recipients of the list, one
\* each and in list order, and each was given the whole message
OnePerRecipient ==
    /\ Len(invocations) <= Len(config.recipients)
    /\ \A i \in 1..Len(invocations) :
          /\ invocations[i].recipient = config.recipients[i]
          /\ invocations[i].stdin = mimetext

\* C6: with the sendmail strategy, as long as every invocation exits with
\* status zero, the invocations are one per recipient in list order, each
\* with the full message, and no error is raised; when send is over there
\* is one for every recipient, so none for an empty list.
C6_OneInvocationPerRecipient ==
    (config.sender.type = "sendmail_MailSender"
        /\ \A i \in 1..Len(invocations) : invocations[i].exit = 0) =>
        /\ OnePerRecipient
        /\ error = "none"
        /\ SendOver => pc = "return 0" /\ Len(invocations) = Len(config.recipients)

\* C6 witness: send is over, two recipients got the message one after the other
C6_Witness ==
    /\ pc = "return 0" /\ Len(invocations) = 2
    /\ invocations[1].recipient # invocations[2].recipient
    /\ invocations[1].exit = 0 /\ invocations[2].exit = 0

\* C7: the first sendmail invocation that exits non-zero raises at once: it
\* is the last invocation, the ones before it were for the recipients before
\* it and exited zero, no recipient has two invocations, and main is at the
\* raised exception, never at its return 0.
C7_FailureIsFatal ==
    \A i \in 1..Len(invocations) :
        invocations[i].exit # 0 =>
            /\ i = Len(invocations)
            /\ \A j \in 1..(i - 1) : invocations[j].exit = 0
            /\ OnePerRecipient
            /\ pc = "raised" /\ error = "Exception: sendmail failed."

\* C7 witness: the first of two recipients got the message, the invocation for
\* the second failed
C7_Witness ==
    /\ pc = "raised" /\ Len(config.recipients) = 2 /\ Len(invocations) = 2
    /\ invocations[1].exit = 0 /\ invocations[2].exit # 0

IsFailureLine(line, host) ==
    LET start == <<" - ">> \o host \o <<" failed with the following error: ">> IN
    Len(line) >= Len(start) /\ SubSeq(line, 1, Len(start)) = start

IsAnyFailureLine(line) == " failed with the following error: " \in Range(line)

\* C8: the report first lists every entry of the host list; after that it
\* has the line "All hosts are up." exactly if no checked host failed, and
\* otherwise exactly one failure line per failed host, with that host's
\* message from check_ping, and no failure line for a host found alive.
C8_ReportContents ==
    ReportBuilt =>
        LET body  == mimetext.body
            n     == Len(config.hosts)
            first == IF n = 0 THEN 5 ELSE n + 4 IN
        /\ mimetext.Subject = <<"HostChecker report">>
        /\ \A i \in 1..n : body[3 + i] = host_line(config.hosts[i])
        /\ \A i \in 1..Len(body) :
              (body[i] = AllUp \/ IsAnyFailureLine(body[i])) => i > first
        /\ (AllUp \in Range(body)) <=> (\A c \in Range(checks) : c.success)
        /\ \A c \in Range(checks) :
              IF c.success
              THEN \A i \in 1..Len(body) : ~IsFailureLine(body[i], c.host)
              ELSE /\ Cardinality({ i \in 1..Len(body) : IsFailureLine(body[i], c.host) }) = 1
                   /\ failure_line(c.host, c.msg) \in Range(body)
        /\ Cardinality({ i \in 1..Len(body) : IsAnyFailureLine(body[i]) })
              = Cardinality({ c \in Range(checks) : ~c.success })

\* C8 witness: of two checked hosts one failed and one was alive
C8_Witness ==
    /\ ReportBuilt /\ Len(checks) = 2
    /\ checks[1].success /\ ~checks[2].success
    /\ failure_line(checks[2].host, checks[2].msg) \in Range(mimetext.body)

\* C9: a probe is started for each entry of the host list, and no probe is
\* started after the result of a probe was waited on.
C9_AllStartedBeforeAnyCheck ==
    /\ \A i, j \in 1..Len(trace) :
          (i < j /\ trace[i].ev = "check") => trace[j].ev # "start"
    /\ Events("check") # <<>> =>
          /\ Len(Events("start")) = Len(config.hosts)
          /\ \A i \in 1..Len(config.hosts) : Events("start")[i].host = config.hosts[i]

\* C9 witness: three probes were started and then the first result was waited on
C9_Witness ==
    /\ Len(trace) = 4
    /\ trace[1].ev = "start" /\ trace[2].ev = "start" /\ trace[3].ev = "start"
    /\ trace[4].ev = "check"

\* C10: once the report is on its way, every probe process that was started
\* has been waited on and checked exactly once, and before the report was
\* sent; a run that returns has sent the report exactly once.
C10_EveryProbeCheckedOnce ==
    ReportBuilt =>
        /\ \A s \in Range(Events("start")) :
              Cardinality({ j \in 1..Len(trace) :
                              trace[j].ev = "check" /\ trace[j].proc = s.proc }) = 1
        /\ \A i, j \in 1..Len(trace) :
              (trace[i].ev = "send" /\ trace[j].ev = "check") => j < i
        /\ Len(Events("send")) = 1

====
